---- MODULE Spec2Model ----
(***************************************************************************)
(* Model of the 1day1growth journal: the entries route (GET = list,        *)
(* POST = create, app/api/entries/route.ts), the GrowthEntry table and the *)
(* home page client (app/page.tsx: paging through useSWRInfinite and the   *)
(* streak calculation).                                                    *)
(*                                                                         *)
(* Values.  A JavaScript string is a sequence of one-character strings.    *)
(* An optional value (undefined / null / absent) is the empty sequence     *)
(* Missing, a present value v is <<v>>.  A timestamp is an integer number  *)
(* of ticks; a calendar day is DayLen ticks long.                          *)
(***************************************************************************)
EXTENDS Integers, Sequences, FiniteSets, TLC

VARIABLES
    rows,        \* the GrowthEntry table, in insertion order
    sentTags,    \* history: the tags field of the request that made rows[i]
    now,         \* the clock
    resp,        \* the last response of the entries route, with its request
    chainSt,     \* a reader following the cursors: "idle", "paging", "done"
    chainCursor, \* the nextCursor the reader got last
    chainAcc,    \* the concatenation of the pages the reader got
    chainBase,   \* history: the number of rows when the reader started
    size,        \* useSWRInfinite: number of pages asked for
    data,        \* useSWRInfinite: Missing, or <<the sequence of pages>>
    runs,        \* useSWRInfinite: the page requests in flight
    fetchError,  \* useSWRInfinite: error, TRUE when the last request failed
    formText,    \* useState: text
    formEffort,  \* useState: effort
    formTags,    \* useState: tags
    isSubmitting, \* useState: isSubmitting
    error,       \* useState: error, Missing for null
    creates,     \* the create requests of addEntry that have not returned
    addOutcome,  \* history: how the last call of addEntry went
    sEntries,    \* the entry list handed to calcStreak
    sResult      \* what calcStreak returned for it: Missing before the call

vars == <<rows, sentTags, now, resp, chainSt, chainCursor, chainAcc, chainBase,
          size, data, runs, fetchError, formText, formEffort, formTags,
          isSubmitting, error, creates, addOutcome, sEntries, sResult>>

storeVars  == <<rows, sentTags>>
chainVars  == <<chainSt, chainCursor, chainAcc, chainBase>>
clientVars == <<size, data, runs, fetchError>>
streakVars == <<sEntries, sResult>>
formVars   == <<formText, formEffort, formTags, isSubmitting, error, creates, addOutcome>>

-----------------------------------------------------------------------------
(* Bounds of the model *)

\* a calendar day, in clock ticks
DayLen == 2
\* the clock stops here
MaxNow == 3
\* rows in the table, in the specifications about paging
MaxRows == 4
\* rows in the table, in the specification about validation
MaxRowsCreate == 2
\* entries a reader following the cursors collects before it gives up
MaxChainLen == 6
\* tags in one request, characters in one tag
MaxTags == 2
MaxTagLen == 1
\* entries in a list handed to calcStreak, and how many days back they go
MaxStreakLen == 3
MaxDaysBack == 3

\* rows in the table, and pages the client asks for, in the specification
\* of the home page
MaxRowsClient == 2
MaxSize == 3

\* page.tsx: text.length > 500
MaxTextLen == 500

\* route.ts: const take = 20.  The model pages by 2 so that a table of
\* MaxRows rows spans three pages.
take == 2

-----------------------------------------------------------------------------
(* Values *)

Missing == <<>>
Some(v) == <<v>>

Min(a, b) == IF a < b THEN a ELSE b

Rep(c, n) == [i \in 1..n |-> c]

\* all sequences over S of length 0..n
RECURSIVE SeqsUpTo(_, _)
SeqsUpTo(S, n) ==
    IF n = 0 THEN {<<>>}
    ELSE LET shorter == SeqsUpTo(S, n - 1)
         IN shorter \cup {Append(s, x) : s \in {t \in shorter : Len(t) = n - 1}, x \in S}

RECURSIVE Concat(_)
Concat(ss) == IF ss = <<>> THEN <<>> ELSE Head(ss) \o Concat(Tail(ss))

-----------------------------------------------------------------------------
(* JSON.stringify and JSON.parse on arrays of strings *)

DQ == "\""
BS == "\\"

\* a string literal body written without escapes
EscapeNone(s) == s

\* the body of a JSON string literal: quote and backslash are escaped
RECURSIVE Escape(_)
Escape(s) ==
    IF s = <<>> THEN <<>>
    ELSE (IF Head(s) \in {DQ, BS} THEN <<BS, Head(s)>> ELSE <<Head(s)>>)
         \o Escape(Tail(s))

Quote(s) == <<DQ>> \o Escape(s) \o <<DQ>>

RECURSIVE JoinQuoted(_)
JoinQuoted(a) ==
    IF a = <<>> THEN <<>>
    ELSE IF Len(a) = 1 THEN Quote(a[1])
    ELSE Quote(a[1]) \o <<",">> \o JoinQuoted(Tail(a))

\* JSON.stringify(a) for an array a of strings
JSONstringify(a) == <<"[">> \o JoinQuoted(a) \o <<"]">>

ParseFail == [ok |-> FALSE, val |-> <<>>, next |-> 0]

\* a string literal whose opening quote was read; i is the next position
RECURSIVE ParseString(_, _, _)
ParseString(s, i, acc) ==
    IF i > Len(s) THEN ParseFail
    ELSE IF s[i] = DQ THEN [ok |-> TRUE, val |-> acc, next |-> i + 1]
    ELSE IF s[i] = BS
         THEN IF i + 1 <= Len(s) /\ s[i + 1] \in {DQ, BS}
              THEN ParseString(s, i + 2, Append(acc, s[i + 1]))
              ELSE ParseFail
    ELSE ParseString(s, i + 1, Append(acc, s[i]))

\* the elements of an array, from position i, which must open a string
RECURSIVE ParseElems(_, _, _)
ParseElems(s, i, acc) ==
    IF i > Len(s) \/ s[i] # DQ THEN ParseFail
    ELSE LET e == ParseString(s, i + 1, <<>>)
         IN IF ~e.ok \/ e.next > Len(s) THEN ParseFail
            ELSE IF s[e.next] = ","
                 THEN ParseElems(s, e.next + 1, Append(acc, e.val))
            ELSE IF s[e.next] = "]" /\ e.next = Len(s)
                 THEN [ok |-> TRUE, val |-> Append(acc, e.val), next |-> e.next + 1]
            ELSE ParseFail

\* JSON.parse(s) for a text that holds an array of strings; ok = FALSE is
\* the SyntaxError
JSONparse(s) ==
    IF Len(s) < 2 \/ s[1] # "[" THEN ParseFail
    ELSE IF s[2] = "]"
         THEN IF Len(s) = 2 THEN [ok |-> TRUE, val |-> <<>>, next |-> 3]
              ELSE ParseFail
    ELSE ParseElems(s, 2, <<>>)

-----------------------------------------------------------------------------
(* The table and prisma.growthEntry *)

Ids == {r.id : r \in {rows[i] : i \in 1..Len(rows)}}

RowOf(id) == CHOOSE r \in {rows[i] : i \in 1..Len(rows)} : r.id = id

\* the orders of the row set S that "ORDER BY date DESC" allows: rows of equal
\* date come in an order the statement does not fix
DateDescOrders(S) ==
    {ord \in [1..Cardinality(S) -> S] :
        /\ \A i, j \in 1..Cardinality(S) : i # j => ord[i] # ord[j]
        /\ \A i, j \in 1..Cardinality(S) : i < j => ord[i].date >= ord[j].date}

\* findMany({orderBy: {date: "desc"}, take: n, cursor: {id}, skip: 1}): the
\* results it may return.  With a cursor the query keeps the rows that the
\* order does not put before the cursor's date, orders them and skips one; a
\* cursor that names no row gives no rows.
findMany(cursor, n) ==
    LET all  == {rows[i] : i \in 1..Len(rows)}
        cand == IF cursor = Missing THEN all
                ELSE IF cursor[1] \in Ids
                     THEN {r \in all : r.date <= RowOf(cursor[1]).date}
                     ELSE {}
        skip == IF cursor = Missing THEN 0 ELSE 1
    IN {SubSeq(ord, skip + 1, Min(Len(ord), skip + n)) : ord \in DateDescOrders(cand)}

-----------------------------------------------------------------------------
(* app/api/entries/route.ts *)

\* JavaScript truthiness of a string and of an optional number
TruthyText(text) == text # <<>>
TruthyNum(effort) == effort # Missing /\ effort[1] # 0

\* if (!text || !effort)
BadRequest(text, effort) == ~TruthyText(text) \/ ~TruthyNum(effort)

\* tags ?? []
OrEmpty(tags) == IF tags = Missing THEN <<>> ELSE tags[1]

\* prisma.growthEntry.create: the row it inserts, with the id and the date
\* the database assigns
NewRow(text, effort, tags) ==
    [id |-> Len(rows) + 1, date |-> now, text |-> text, effort |-> effort[1],
     tags |-> JSONstringify(OrEmpty(tags))]

\* entry.tags ? JSON.parse(entry.tags) : []
DecodeTags(enc) == IF enc # <<>> THEN JSONparse(enc) ELSE [ok |-> TRUE, val |-> <<>>, next |-> 0]

\* { ...entry, tags: <decoded> }
Decoded(r) ==
    [id |-> r.id, date |-> r.date, text |-> r.text, effort |-> r.effort,
     tags |-> DecodeTags(r.tags).val]

NoResp == [op |-> "none", status |-> 0, req |-> <<>>, entries |-> <<>>, nextCursor |-> Missing]

\* POST with the insert put before the check of the request
POSTWriteFirst(text, effort, tags) ==
    LET req == <<text, effort, tags>>
    IN IF effort = Missing
       THEN /\ resp' = [op |-> "POST", status |-> 500, req |-> req,
                        entries |-> <<>>, nextCursor |-> Missing]
            /\ UNCHANGED storeVars
       ELSE /\ rows' = Append(rows, NewRow(text, effort, tags))
            /\ sentTags' = Append(sentTags, tags)
            /\ resp' = [op |-> "POST",
                        status |-> IF BadRequest(text, effort) THEN 400 ELSE 201,
                        req |-> req,
                        entries |-> IF BadRequest(text, effort) THEN <<>>
                                    ELSE <<[NewRow(text, effort, tags) EXCEPT
                                              !.tags = OrEmpty(tags)]>>,
                        nextCursor |-> Missing]

\* POST with an update of the newest row in place of the insert
POSTOverwrite(text, effort, tags) ==
    LET req == <<text, effort, tags>>
    IN IF BadRequest(text, effort)
       THEN /\ resp' = [op |-> "POST", status |-> 400, req |-> req,
                        entries |-> <<>>, nextCursor |-> Missing]
            /\ UNCHANGED storeVars
       ELSE LET created == [NewRow(text, effort, tags) EXCEPT
                              !.id = IF rows = <<>> THEN 1 ELSE Len(rows)]
            IN /\ rows' = IF rows = <<>> THEN <<created>>
                          ELSE [rows EXCEPT ![Len(rows)] = created]
               /\ sentTags' = IF rows = <<>> THEN <<tags>>
                              ELSE [sentTags EXCEPT ![Len(rows)] = tags]
               /\ resp' = [op |-> "POST", status |-> 201, req |-> req,
                           entries |-> <<[created EXCEPT !.tags = OrEmpty(tags)]>>,
                           nextCursor |-> Missing]

\* export async function POST
POST(text, effort, tags) ==
    LET req == <<text, effort, tags>>
    IN IF BadRequest(text, effort)
       THEN /\ resp' = [op |-> "POST", status |-> 400, req |-> req,
                        entries |-> <<>>, nextCursor |-> Missing]
            /\ UNCHANGED storeVars
       ELSE LET created == NewRow(text, effort, tags)
            IN /\ rows' = Append(rows, created)
               /\ sentTags' = Append(sentTags, tags)
               /\ resp' = [op |-> "POST",
                           status |-> IF JSONparse(created.tags).ok THEN 201 ELSE 500,
                           req |-> req,
                           entries |-> IF JSONparse(created.tags).ok
                                       THEN <<[created EXCEPT !.tags = JSONparse(created.tags).val]>>
                                       ELSE <<>>,
                           nextCursor |-> Missing]

\* const nextCursor = result.length > take ? result.pop()!.id : null
NextCursorOf(result) == IF Len(result) > take THEN Some(result[Len(result)].id) ELSE Missing
Popped(result) == IF Len(result) > take THEN SubSeq(result, 1, Len(result) - 1) ELSE result

\* export async function GET, for the query parameter cursor
GET(cursor) ==
    \E result \in findMany(cursor, take + 1) :
        LET page == Popped(result)
            ok   == \A i \in 1..Len(page) : DecodeTags(page[i].tags).ok
        IN resp' = [op |-> "GET",
                    status |-> IF ok THEN 200 ELSE 500,
                    req |-> <<cursor>>,
                    entries |-> IF ok THEN [i \in 1..Len(page) |-> Decoded(page[i])] ELSE <<>>,
                    nextCursor |-> IF ok THEN NextCursorOf(result) ELSE Missing]

-----------------------------------------------------------------------------
(* The clock, and the callers of the route *)

Tick ==
    /\ now < MaxNow
    /\ now' = now + 1
    /\ UNCHANGED <<storeVars, resp, chainVars, clientVars, streakVars, formVars>>

OkText == <<"o", "k">>

\* a create with plain content, while no reader is following cursors
PostPlain ==
    /\ chainSt = "idle"
    /\ Len(rows) < MaxRows
    /\ POST(OkText, Some(3), Missing)
    /\ UNCHANGED <<now, chainVars, clientVars, streakVars, formVars>>

\* list(cursor = X) for the id X of a stored entry
ListAt ==
    /\ chainSt = "idle"
    /\ \E x \in Ids : GET(Some(x))
    /\ UNCHANGED <<now, storeVars, chainVars, clientVars, streakVars, formVars>>

\* a reader calls list() without a cursor
ChainStart ==
    /\ chainSt = "idle"
    /\ GET(Missing)
    /\ chainAcc' = resp'.entries
    /\ chainBase' = Len(rows)
    /\ chainCursor' = resp'.nextCursor
    /\ chainSt' = IF resp'.nextCursor = Missing THEN "done" ELSE "paging"
    /\ UNCHANGED <<now, storeVars, clientVars, streakVars, formVars>>

\* the reader calls list(cursor = the nextCursor it got)
ChainNext ==
    /\ chainSt = "paging"
    /\ Len(chainAcc) < MaxChainLen
    /\ GET(chainCursor)
    /\ chainAcc' = chainAcc \o resp'.entries
    /\ UNCHANGED chainBase
    /\ chainCursor' = resp'.nextCursor
    /\ chainSt' = IF resp'.nextCursor = Missing THEN "done" ELSE "paging"
    /\ UNCHANGED <<now, storeVars, clientVars, streakVars, formVars>>

Init ==
    /\ rows = <<>>
    /\ sentTags = <<>>
    /\ now = 0
    /\ resp = NoResp
    /\ chainSt = "idle"
    /\ chainCursor = Missing
    /\ chainAcc = <<>>
    /\ chainBase = 0
    /\ fetchError = FALSE
    /\ formText = <<>>
    /\ formEffort = 3
    /\ formTags = <<>>
    /\ isSubmitting = FALSE
    /\ error = Missing
    /\ creates = <<>>
    /\ addOutcome = "none"
    /\ size = 1
    /\ data = Missing
    /\ runs = <<>>
    /\ sEntries = <<>>
    /\ sResult = Missing

\* the store, read by cursor with no write while a reader is paging
NextPaging == Tick \/ PostPlain \/ ListAt \/ ChainStart \/ ChainNext

SpecPaging == Init /\ [][NextPaging]_vars

-----------------------------------------------------------------------------
(* Paging: the claims *)

\* the order the specification gives the store: date descending, and of two
\* rows of one date the one inserted later first (ids are given in insertion
\* order)
StoreBefore(a, b) == a.date > b.date \/ (a.date = b.date /\ a.id > b.id)

DistinctDates == \A i, j \in 1..Len(rows) : i # j => rows[i].date # rows[j].date

IdsOf(es) == {es[i].id : i \in 1..Len(es)}

DateDescending(es) == \A i, j \in 1..Len(es) : i < j => es[i].date >= es[j].date

\* C1: when a reader has followed the cursors from list() to an empty
\* nextCursor with no write in between, the pages together hold every stored
\* entry exactly once, in descending-date order.
C1_PagesCoverStore ==
    chainSt = "done" =>
        /\ Len(chainAcc) = Len(rows)
        /\ IdsOf(chainAcc) = Ids
        /\ DateDescending(chainAcc)

\* C2: the page of list(cursor = X), X the id of a stored entry, does not
\* hold the entry X and holds only entries after X in the store order.
C2_CursorExclusive ==
    (resp.op = "GET" /\ resp.req # <<Missing>>) =>
        \A i \in 1..Len(resp.entries) :
            /\ resp.entries[i].id # resp.req[1][1]
            /\ StoreBefore(RowOf(resp.req[1][1]), resp.entries[i])

\* C9: every page of list is in date-descending order with entries of one
\* date newest-inserted first.
C9_PageInStoreOrder ==
    resp.op = "GET" =>
        \A i, j \in 1..Len(resp.entries) :
            i < j => StoreBefore(resp.entries[i], resp.entries[j])

\* On tables without two rows of one date the statements of C2 and C9 hold;
\* that of C1 fails there too.
T2_DistinctDates == DistinctDates => C2_CursorExclusive
T9_DistinctDates == DistinctDates => C9_PageInStoreOrder

\* the stored rows that the store order puts after the last entry of the
\* page in resp; for an empty page, after the cursor's row, and all rows when
\* there was no cursor
AfterPage ==
    LET all == {rows[i] : i \in 1..Len(rows)}
        es  == resp.entries
        c   == resp.req[1]
    IN IF es # <<>> THEN {r \in all : StoreBefore(es[Len(es)], r)}
       ELSE IF c # Missing THEN {r \in all : StoreBefore(RowOf(c[1]), r)}
       ELSE all

\* C15: a list call returns at most take entries; its nextCursor is non-empty
\* exactly when a stored entry lies after the last returned one in the store
\* order, and is then the id of the first such entry.
C15_NextCursorIffMore ==
    resp.op = "GET" =>
        /\ Len(resp.entries) <= take
        /\ resp.nextCursor # Missing <=> AfterPage # {}
        /\ resp.nextCursor # Missing =>
              \A r \in AfterPage :
                  r.id = resp.nextCursor[1] \/ StoreBefore(RowOf(resp.nextCursor[1]), r)

\* On tables without two rows of one date the statement of C15 holds.
T15_DistinctDates == DistinctDates => C15_NextCursorIffMore

\* C17: with no write in between, the reader reaches an empty nextCursor
\* after finitely many calls.  The table answers one query on one content
\* one way, so a call that hands back the cursor it was given is repeated
\* without end: no call with a cursor returns that cursor as nextCursor.
C17_CursorAdvances ==
    [][(chainSt = "paging" /\ chainSt' = "paging" /\ resp' # resp)
          => chainCursor' # chainCursor]_vars

\* On tables without two rows of one date no call hands back its cursor.
T17_DistinctDates ==
    [][(DistinctDates /\ chainSt = "paging" /\ chainSt' = "paging" /\ resp' # resp)
          => chainCursor' # chainCursor]_vars

\* a create with plain content at any time, also while a reader is paging
PostInterleaved ==
    /\ Len(rows) < MaxRows
    /\ POST(OkText, Some(3), Missing)
    /\ UNCHANGED <<now, chainVars, clientVars, streakVars, formVars>>

NextInterleaved == Tick \/ PostInterleaved \/ ChainStart \/ ChainNext

SpecInterleaved == Init /\ [][NextInterleaved]_vars

\* C18: with creates between the list calls of one chain, no entry is
\* returned in two pages, and the entries stored when the chain started come
\* in their store order.
C18_InterleavedNoRepeat ==
    /\ \A i, j \in 1..Len(chainAcc) : i # j => chainAcc[i].id # chainAcc[j].id
    /\ \A i, j \in 1..Len(chainAcc) :
          (i < j /\ chainAcc[i].id <= chainBase /\ chainAcc[j].id <= chainBase)
              => StoreBefore(chainAcc[i], chainAcc[j])

\* On tables without two rows of one date the statement of C18 holds.
T18_DistinctDates == DistinctDates => C18_InterleavedNoRepeat

-----------------------------------------------------------------------------
(* create: validation and the tags encoding *)

Texts == {<<>>, <<" ">>, <<" ", " ">>, OkText, Rep("x", MaxTextLen), Rep("x", MaxTextLen + 1)}
Efforts == {Missing, Some(0), Some(3), Some(6)}
FewTags == {Missing, Some(<<<<"a">>>>)}

TagChars == {"a", ",", DQ, BS}
TagStrings == SeqsUpTo(TagChars, MaxTagLen) \ {<<>>}
TagLists == SeqsUpTo(TagStrings, MaxTags)
TagInputs == {Missing} \cup {Some(t) : t \in TagLists}

\* a create request with any text and effort
PostAny ==
    /\ Len(rows) < MaxRowsCreate
    /\ \E text \in Texts, effort \in Efforts, tags \in FewTags : POST(text, effort, tags)
    /\ UNCHANGED <<now, chainVars, clientVars, streakVars, formVars>>

\* a create request with any tags, into the empty table
PostTagged ==
    /\ rows = <<>>
    /\ \E tags \in TagInputs : POST(OkText, Some(3), tags)
    /\ UNCHANGED <<now, chainVars, clientVars, streakVars, formVars>>

\* list() without a cursor
ListFirst ==
    /\ GET(Missing)
    /\ UNCHANGED <<now, storeVars, chainVars, clientVars, streakVars, formVars>>

NextCreate == PostAny \/ ListFirst

SpecCreate == Init /\ [][NextCreate]_vars

NextTags == Tick \/ PostTagged \/ ListFirst

SpecTags == Init /\ [][NextTags]_vars

WhitespaceOnly(text) == \A i \in 1..Len(text) : text[i] = " "

\* the requests the specification has create reject
Invalid(text, effort) ==
    WhitespaceOnly(text) \/ Len(text) > MaxTextLen \/ effort = Missing

\* C4: a create request with empty, whitespace-only or too long text, or
\* without effort, gets the validation error and no such entry is stored.
C4_InvalidRejected ==
    /\ (resp.op = "POST" /\ Invalid(resp.req[1], resp.req[2])) => resp.status = 400
    /\ \A i \in 1..Len(rows) : ~Invalid(rows[i].text, Some(rows[i].effort))

\* C5: a step that ends in a validation rejection of create leaves the
\* stored entries as they were.
C5_RejectedNoWrite ==
    [][(resp'.op = "POST" /\ resp'.status = 400) => rows' = rows]_vars

\* a create was rejected while an entry is stored
C5_Witness == resp.op = "POST" /\ resp.status = 400 /\ Len(rows) > 0

\* C8: a list returns, for every entry, the tags its create request sent, in
\* the same order and with the same strings, and the empty sequence when the
\* request sent none; the stored text of an omitted tags field is "[]".
C8_TagsRoundTrip ==
    /\ resp.op = "GET" =>
          /\ resp.status = 200
          /\ IdsOf(resp.entries) = Ids
          /\ \A i \in 1..Len(resp.entries) :
                resp.entries[i].tags = OrEmpty(sentTags[resp.entries[i].id])
    /\ resp.op = "POST" =>
          /\ resp.status = 201
          /\ resp.entries[1].tags = OrEmpty(resp.req[3])
    /\ \A i \in 1..Len(rows) : sentTags[i] = Missing => rows[i].tags = <<"[", "]">>

\* C13: every stored entry has an effort in 1..5, whatever create requests
\* the route has received.
C13_EffortInRange == \A i \in 1..Len(rows) : rows[i].effort \in 1..5

\* C14: a step never removes or changes a stored entry: the id, text,
\* effort, tags and date of every row stay as they are.
C14_AppendOnly ==
    [][/\ Len(rows') >= Len(rows)
       /\ \A i \in 1..Len(rows) : rows'[i] = rows[i]]_vars

\* a list was answered with two entries stored
C14_Witness == Len(rows) = 2 /\ resp.op = "GET" /\ Len(resp.entries) = 2

\* a list returned an entry sent with a quote and a backslash as its tags
C8_Witness ==
    /\ resp.op = "GET"
    /\ Len(resp.entries) = 1
    /\ resp.entries[1].tags = <<<<DQ>>, <<BS>>>>

\* a list returned an entry sent without tags
C8_WitnessOmitted ==
    /\ resp.op = "GET"
    /\ Len(resp.entries) = 1
    /\ sentTags[1] = Missing
    /\ resp.entries[1].tags = <<>>

-----------------------------------------------------------------------------
(* app/page.tsx: calcStreak *)

\* setHours(0, 0, 0, 0): the midnight that starts the day of timestamp t
Midnight(t) == t - (t % DayLen)

\* the loop without its break
RECURSIVE StreakLoopNoBreak(_, _, _, _)
StreakLoopNoBreak(entries, today, i, streak) ==
    IF i >= Len(entries) THEN streak
    ELSE IF Midnight(entries[i + 1].date) = today - i * DayLen
         THEN StreakLoopNoBreak(entries, today, i + 1, streak + 1)
         ELSE StreakLoopNoBreak(entries, today, i + 1, streak)

\* the for loop of calcStreak from index i with the count streak; today is
\* the midnight of the current day; a mismatch breaks the loop
RECURSIVE StreakLoop(_, _, _, _)
StreakLoop(entries, today, i, streak) ==
    IF i >= Len(entries) THEN streak
    ELSE IF Midnight(entries[i + 1].date) = today - i * DayLen
         THEN StreakLoop(entries, today, i + 1, streak + 1)
         ELSE streak

\* calcStreak(entries), called at the time now
calcStreak(entries) ==
    IF Len(entries) = 0 THEN 0
    ELSE StreakLoop(entries, Midnight(now), 0, 0)

\* the timestamps of the days the lists go back to, and the entry lists
StreakDates == 0..((MaxDaysBack + 1) * DayLen - 1)
StreakEntry(i, d) == [id |-> i, date |-> d, text |-> OkText, effort |-> 3, tags |-> <<>>]
StreakLists ==
    {[i \in 1..Len(ds) |-> StreakEntry(i, ds[i])] : ds \in SeqsUpTo(StreakDates, MaxStreakLen)}

\* any list of entries dated on the last MaxDaysBack + 1 days, on the last day
InitStreak ==
    /\ rows = <<>>
    /\ sentTags = <<>>
    /\ now \in {MaxDaysBack * DayLen + t : t \in 0..(DayLen - 1)}
    /\ resp = NoResp
    /\ chainSt = "idle"
    /\ chainCursor = Missing
    /\ chainAcc = <<>>
    /\ chainBase = 0
    /\ fetchError = FALSE
    /\ formText = <<>>
    /\ formEffort = 3
    /\ formTags = <<>>
    /\ isSubmitting = FALSE
    /\ error = Missing
    /\ creates = <<>>
    /\ addOutcome = "none"
    /\ size = 1
    /\ data = Missing
    /\ runs = <<>>
    /\ sEntries \in StreakLists
    /\ sResult = Missing

\* the page renders calcStreak(list)
RenderStreak ==
    /\ sResult = Missing
    /\ sResult' = Some(calcStreak(sEntries))
    /\ UNCHANGED <<now, storeVars, resp, chainVars, clientVars, formVars, sEntries>>

NextStreak == RenderStreak

SpecStreak == InitStreak /\ [][NextStreak]_vars

\* how many days before today the entry is dated
DaysAgo(e) == (Midnight(now) - Midnight(e.date)) \div DayLen
DaysAgoOf(entries) == [i \in 1..Len(entries) |-> DaysAgo(entries[i])]

\* C6: calcStreak returns the length of the longest prefix whose entry at
\* index i (from 0) is dated today minus i days: 0 for the empty list and
\* for a first entry not dated today, 3 for today, yesterday, two days ago,
\* 1 for today, three days ago.
C6_LongestDayPrefix ==
    sResult # Missing =>
        LET k == sResult[1]
            d == DaysAgoOf(sEntries)
        IN /\ k \in 0..Len(sEntries)
           /\ \A i \in 0..(k - 1) : d[i + 1] = i
           /\ k < Len(sEntries) => d[k + 1] # k
           /\ sEntries = <<>> => k = 0
           /\ (sEntries # <<>> /\ d[1] # 0) => k = 0
           /\ d = <<0, 1, 2>> => k = 3
           /\ d = <<0, 3>> => k = 1

\* calcStreak returned 1 for entries dated today and three days ago
C6_Witness == sResult = Some(1) /\ DaysAgoOf(sEntries) = <<0, 3>>

\* the number of consecutive calendar days, ending today, on each of which
\* some entry of the list is dated
RECURSIVE DaysInARow(_, _)
DaysInARow(entries, n) ==
    IF \E i \in 1..Len(entries) : DaysAgo(entries[i]) = n
    THEN DaysInARow(entries, n + 1)
    ELSE n

\* C7: for a date-descending list, also with several entries on one day,
\* the streak is the number of consecutive calendar days, ending today, that
\* have an entry in the list.
C7_StreakCountsDays ==
    (sResult # Missing /\ DateDescending(sEntries)) => sResult[1] = DaysInARow(sEntries, 0)

\* On lists with at most one entry per calendar day the statement of C7 holds.
T7_OnePerDay ==
    (\A i, j \in 1..Len(sEntries) : i # j => DaysAgo(sEntries[i]) # DaysAgo(sEntries[j]))
        => C7_StreakCountsDays

-----------------------------------------------------------------------------
(* app/page.tsx: the timeline, paged through useSWRInfinite *)

\* (index) => `/api/entries?page=${index + 1}`: the query parameters of the
\* key of page index (from 0)
getKey(index) == [page |-> index + 1]

\* searchParams.get(name) ?? undefined
searchParam(query, name) == IF name \in DOMAIN query THEN Some(query[name]) ELSE Missing

\* the value undefined as an element of a list
Undefined == [undefined |-> TRUE]

\* a response body that is JSON but no page: it has no entries
ErrorBody == [error |-> TRUE]

\* page.entries as flatMap takes it: the entries, and the one element
\* undefined when the page has no entries property
PageEntries(page) == IF "entries" \in DOMAIN page THEN page.entries ELSE <<Undefined>>

\* const list = data ? data.flatMap(page => page.entries) : []
list == IF data = Missing THEN <<>>
        ELSE Concat([i \in 1..Len(data[1]) |-> PageEntries(data[1][i])])

\* data[data.length - 1]?.entries.length throws a TypeError when the last
\* page has no entries property: the page does not render
renderThrows ==
    /\ data # Missing
    /\ data[1] # <<>>
    /\ "entries" \notin DOMAIN data[1][Len(data[1])]

\* const hasMore = data && data[data.length - 1]?.entries.length > 0
hasMore ==
    /\ data # Missing
    /\ data[1] # <<>>
    /\ ~renderThrows
    /\ Len(data[1][Len(data[1])].entries) > 0

\* isLoading of useSWRInfinite: a request is going on and no data is loaded
isLoading == data = Missing /\ runs # <<>>

\* useSWRInfinite keeps, for each revalidation it has started and not ended,
\* the number n of pages it is to load and the pages got so far.  A
\* revalidation loads page 0 anew, takes the later pages from data when data
\* has them, and requests the others from the route one after the other.
NewRun(n) == [n |-> n, got |-> <<>>, all |-> FALSE]

Cached(i) == i >= 1 /\ data # Missing /\ i < Len(data[1])

\* the revalidation that mutate() starts loads every page anew
MutateRun(n) == [n |-> n, got |-> <<>>, all |-> TRUE]

\* revalidation k takes its page i from data
Reused(k, i) == Cached(i) /\ ~runs[k].all

\* one revalidation gets its next page
RunFetch(k) ==
    /\ k \in 1..Len(runs)
    /\ Len(runs[k].got) < runs[k].n
    /\ LET i == Len(runs[k].got)
       IN IF Reused(k, i)
          THEN /\ runs' = [runs EXCEPT ![k].got = Append(@, data[1][i + 1])]
               /\ UNCHANGED resp
          ELSE /\ GET(searchParam(getKey(i), "cursor"))
               /\ runs' = [runs EXCEPT ![k].got =
                              Append(@, [entries |-> resp'.entries,
                                         nextCursor |-> resp'.nextCursor])]
    /\ UNCHANGED <<now, storeVars, chainVars, size, data, fetchError, streakVars, formVars>>

\* a revalidation that has all its pages ends: the latest one started gives
\* the new data, the result of an earlier one is dropped
RunDone(k) ==
    /\ k \in 1..Len(runs)
    /\ Len(runs[k].got) = runs[k].n
    /\ data' = IF k = Len(runs) THEN Some(runs[k].got) ELSE data
    /\ fetchError' = IF k = Len(runs) THEN FALSE ELSE fetchError
    /\ runs' = [j \in 1..(Len(runs) - 1) |-> IF j < k THEN runs[j] ELSE runs[j + 1]]
    /\ UNCHANGED <<now, storeVars, resp, chainVars, size, streakVars, formVars>>

Fetch == \E k \in 1..Len(runs) : RunFetch(k)

Done == \E k \in 1..Len(runs) : RunDone(k)

\* the "load more" button, shown when hasMore and disabled when isLoading:
\* onClick={() => setSize(size + 1)}
LoadMore ==
    /\ hasMore
    /\ ~isLoading
    /\ size < MaxSize
    /\ size' = size + 1
    /\ runs' = Append(runs, NewRun(size + 1))
    /\ UNCHANGED <<now, storeVars, resp, chainVars, data, fetchError, streakVars, formVars>>

\* a create with plain content, by any client
PostClient ==
    /\ Len(rows) < MaxRowsClient
    /\ POST(OkText, Some(3), Missing)
    /\ UNCHANGED <<now, chainVars, clientVars, streakVars, formVars>>

\* the page is mounted: useSWRInfinite starts with size 1 and loads it
InitClient ==
    /\ rows = <<>>
    /\ sentTags = <<>>
    /\ now = 0
    /\ resp = NoResp
    /\ chainSt = "idle"
    /\ chainCursor = Missing
    /\ chainAcc = <<>>
    /\ chainBase = 0
    /\ fetchError = FALSE
    /\ formText = <<>>
    /\ formEffort = 3
    /\ formTags = <<>>
    /\ isSubmitting = FALSE
    /\ error = Missing
    /\ creates = <<>>
    /\ addOutcome = "none"
    /\ size = 1
    /\ data = Missing
    /\ runs = <<NewRun(1)>>
    /\ sEntries = <<>>
    /\ sResult = Missing

NextClient == Tick \/ PostClient \/ Fetch \/ Done \/ LoadMore

SpecClient == InitClient /\ [][NextClient]_vars

\* C3: the timeline the client has accumulated holds no entry twice and is
\* in descending-date order.
C3_TimelineNoDuplicates ==
    /\ \A i, j \in 1..Len(list) : i # j => list[i].id # list[j].id
    /\ DateDescending(list)

\* C10: at most one pagination fetch is outstanding.
C10_OneFetchAtATime == Len(runs) <= 1

-----------------------------------------------------------------------------
(* The form: addEntry *)

MaxRowsForm == 1

IsSpace(c) == c = " "

\* String.prototype.trim
RECURSIVE TrimStart(_)
TrimStart(s) == IF s # <<>> /\ IsSpace(Head(s)) THEN TrimStart(Tail(s)) ELSE s

RECURSIVE TrimEnd(_)
TrimEnd(s) ==
    IF s # <<>> /\ IsSpace(s[Len(s)]) THEN TrimEnd(SubSeq(s, 1, Len(s) - 1)) ELSE s

trim(s) == TrimEnd(TrimStart(s))

\* s.split(","): the pieces between the commas, one more than there are commas
RECURSIVE SplitFrom(_, _)
SplitFrom(s, piece) ==
    IF s = <<>> THEN <<piece>>
    ELSE IF Head(s) = "," THEN <<piece>> \o SplitFrom(Tail(s), <<>>)
    ELSE SplitFrom(Tail(s), Append(piece, Head(s)))

split(s) == SplitFrom(s, <<>>)

\* tags.split(",").map(t => t.trim()).filter(Boolean)
payloadTags(s) ==
    LET pieces == split(s)
        trimmed == [i \in 1..Len(pieces) |-> trim(pieces[i])]
    IN SelectSeq(trimmed, LAMBDA t : t # <<>>)

\* the two messages of validateInput, the message of the thrown Error and the
\* message of the error fetch rejects with
MsgEmpty == "enter what you grew in"
MsgTooLong == "500 characters at most"
MsgNotOk == "recording failed"
MsgNetwork == "failed to fetch"

\* validateInput: null when the text passes
validateInput ==
    IF trim(formText) = <<>> THEN Some(MsgEmpty)
    ELSE IF Len(formText) > MaxTextLen THEN Some(MsgTooLong)
    ELSE Missing

\* what the user can type, slide and enter
FormTexts == {<<" ">>, <<" ", "o", "k", " ">>, Rep("x", MaxTextLen + 1)}
FormEfforts == {5}
FormTags == {<<"a", ",", " ", "b">>}

\* the three controls are disabled while isSubmitting
EditText ==
    /\ ~isSubmitting
    /\ \E t \in FormTexts : formText' = t
    /\ UNCHANGED <<now, storeVars, resp, chainVars, clientVars, streakVars,
                   formEffort, formTags, isSubmitting, error, creates, addOutcome>>

EditEffort ==
    /\ ~isSubmitting
    /\ \E e \in FormEfforts : formEffort' = e
    /\ UNCHANGED <<now, storeVars, resp, chainVars, clientVars, streakVars,
                   formText, formTags, isSubmitting, error, creates, addOutcome>>

EditTags ==
    /\ ~isSubmitting
    /\ \E g \in FormTags : formTags' = g
    /\ UNCHANGED <<now, storeVars, resp, chainVars, clientVars, streakVars,
                   formText, formEffort, isSubmitting, error, creates, addOutcome>>

\* addEntry up to its first await: validation, then the request is sent
addEntry ==
    /\ IF validateInput # Missing
       THEN /\ error' = validateInput
            /\ addOutcome' = "invalid"
            /\ UNCHANGED <<isSubmitting, creates>>
       ELSE /\ isSubmitting' = TRUE
            /\ error' = Missing
            /\ creates' = Append(creates,
                   [text |-> trim(formText), effort |-> formEffort,
                    tags |-> payloadTags(formTags), status |-> 0])
            /\ addOutcome' = "pending"
    /\ UNCHANGED <<now, storeVars, resp, chainVars, clientVars, streakVars,
                   formText, formEffort, formTags>>

\* the button: disabled={isSubmitting || !text.trim()}
ClickSubmit ==
    /\ ~isSubmitting
    /\ trim(formText) # <<>>
    /\ addEntry

\* handleKeyDown on a textarea that takes keys while isSubmitting
KeySubmitNotDisabled == addEntry

\* handleKeyDown: Ctrl+Enter or Cmd+Enter in the textarea, which is disabled
\* while isSubmitting
KeySubmit ==
    /\ ~isSubmitting
    /\ addEntry

\* the route handles the request of addEntry
ServeCreate ==
    /\ creates # <<>>
    /\ creates[1].status = 0
    /\ Len(rows) < MaxRowsForm
    /\ POST(creates[1].text, Some(creates[1].effort), Some(creates[1].tags))
    /\ creates' = [creates EXCEPT ![1].status = resp'.status]
    /\ UNCHANGED <<now, chainVars, clientVars, streakVars,
                   formText, formEffort, formTags, isSubmitting, error, addOutcome>>

\* the insert throws in the route, which catches nothing: the answer is 500
ServeCreateFails ==
    /\ creates # <<>>
    /\ creates[1].status = 0
    /\ resp' = [op |-> "POST", status |-> 500,
                req |-> <<creates[1].text, Some(creates[1].effort), Some(creates[1].tags)>>,
                entries |-> <<>>, nextCursor |-> Missing]
    /\ creates' = [creates EXCEPT ![1].status = 500]
    /\ UNCHANGED <<now, storeVars, chainVars, clientVars, streakVars,
                   formText, formEffort, formTags, isSubmitting, error, addOutcome>>

\* response.ok
Ok(status) == status \in 200..299

\* addEntry with the form reset put before the check of response.ok
CreateResponseResetFirst ==
    /\ creates # <<>>
    /\ creates[1].status # 0
    /\ creates' = Tail(creates)
    /\ formText' = <<>>
    /\ formEffort' = 3
    /\ formTags' = <<>>
    /\ IF Ok(creates[1].status)
       THEN /\ runs' = Append(runs, MutateRun(size))
            /\ addOutcome' = "mutating"
            /\ UNCHANGED <<isSubmitting, error>>
       ELSE /\ error' = Some(MsgNotOk)
            /\ isSubmitting' = FALSE
            /\ addOutcome' = "failed"
            /\ UNCHANGED runs
    /\ UNCHANGED <<now, storeVars, resp, chainVars, size, data, fetchError, streakVars>>

\* addEntry goes on when the response is there: on a response that is not OK
\* it throws, and catch and finally run; on an OK response it resets the form
\* and waits for mutate()
CreateResponse ==
    /\ creates # <<>>
    /\ creates[1].status # 0
    /\ creates' = Tail(creates)
    /\ IF Ok(creates[1].status)
       THEN /\ formText' = <<>>
            /\ formEffort' = 3
            /\ formTags' = <<>>
            /\ runs' = Append(runs, MutateRun(size))
            /\ addOutcome' = "mutating"
            /\ UNCHANGED <<isSubmitting, error>>
       ELSE /\ error' = Some(MsgNotOk)
            /\ isSubmitting' = FALSE
            /\ addOutcome' = "failed"
            /\ UNCHANGED <<formText, formEffort, formTags, runs>>
    /\ UNCHANGED <<now, storeVars, resp, chainVars, size, data, fetchError, streakVars>>

\* fetch rejects: the request or its response is lost
CreateNetworkError ==
    /\ creates # <<>>
    /\ creates' = Tail(creates)
    /\ error' = Some(MsgNetwork)
    /\ isSubmitting' = FALSE
    /\ addOutcome' = "failed"
    /\ UNCHANGED <<now, storeVars, resp, chainVars, clientVars, streakVars,
                   formText, formEffort, formTags>>

\* the revalidation of mutate() is over
mutateSettled == \A k \in 1..Len(runs) : ~runs[k].all

\* addEntry goes on after await mutate(): finally
AddEntryFinish ==
    /\ addOutcome = "mutating"
    /\ mutateSettled
    /\ isSubmitting' = FALSE
    /\ addOutcome' = "ok"
    /\ UNCHANGED <<now, storeVars, resp, chainVars, clientVars, streakVars,
                   formText, formEffort, formTags, error, creates>>

NextForm ==
    \/ EditText \/ EditEffort \/ EditTags
    \/ ClickSubmit \/ KeySubmit
    \/ ServeCreate \/ ServeCreateFails
    \/ CreateResponse \/ CreateNetworkError
    \/ Fetch \/ Done
    \/ AddEntryFinish

SpecForm == InitClient /\ [][NextForm]_vars

\* the steps that do not wait for the user: a request is served, answered or
\* lost, and code waiting for a settled promise goes on
Pending ==
    \/ ServeCreate \/ ServeCreateFails
    \/ CreateResponse \/ CreateNetworkError
    \/ Fetch \/ Done
    \/ AddEntryFinish

\* the event loop does not stop while such a step is waiting
SpecFormFair ==
    /\ InitClient
    /\ [][NextForm]_vars
    /\ WF_vars(Pending)

\* a step in which a creation attempt fails
AttemptFails ==
    /\ addOutcome' \in {"invalid", "failed"}
    /\ <<addOutcome, error, creates>>' # <<addOutcome, error, creates>>

\* C11: when a creation attempt of the client fails (validation, response
\* that is not OK, network error) the fields text, effort and tags and the
\* timeline are as they were, and an error message is set.
C11_FailureKeepsState ==
    /\ [](addOutcome \in {"invalid", "failed"} => error # Missing)
    /\ [][AttemptFails =>
            /\ formText' = formText
            /\ formEffort' = formEffort
            /\ formTags' = formTags
            /\ list' = list
            /\ error' # Missing]_vars

C11_Witness ==
    /\ addOutcome = "failed"
    /\ error = Some(MsgNotOk)
    /\ formText = <<" ", "o", "k", " ">>
    /\ formTags # <<>>
    /\ list # <<>>

\* C19: an addEntry call that passes validation sets isSubmitting, and
\* isSubmitting is reset in the end whether the request succeeds or fails;
\* while isSubmitting no second create request is started; the fields are
\* reset to empty, 3 and empty only on an OK response.
C19_SubmitCycle ==
    /\ [][/\ Len(creates') > Len(creates) => ~isSubmitting /\ isSubmitting'
          /\ (/\ isSubmitting
              /\ <<formText, formEffort, formTags>>' # <<formText, formEffort, formTags>>)
                => /\ <<formText, formEffort, formTags>>' = << <<>>, 3, <<>> >>
                   /\ creates # <<>>
                   /\ Ok(creates[1].status)]_vars
    /\ [](Len(creates) <= 1)
    /\ isSubmitting ~> ~isSubmitting

C19_Witness ==
    /\ addOutcome = "ok"
    /\ ~isSubmitting
    /\ <<formText, formEffort, formTags>> = << <<>>, 3, <<>> >>
    /\ \E i \in 1..Len(rows) :
          /\ rows[i].text = <<"o", "k">>
          /\ rows[i].effort = 5
          /\ rows[i].tags = JSONstringify(<<<<"a">>, <<"b">>>>)

-----------------------------------------------------------------------------
(* The timeline over a store that no longer changes *)

mounted == data # Missing \/ runs # <<>>

\* a create with plain content before the page is opened
PostBeforeMount ==
    /\ ~mounted
    /\ Len(rows) < MaxRowsClient
    /\ POST(OkText, Some(3), Missing)
    /\ UNCHANGED <<now, chainVars, clientVars, streakVars, formVars>>

\* the page is opened: useSWRInfinite starts with size 1 and loads it
Mount ==
    /\ ~mounted
    /\ runs' = <<NewRun(1)>>
    /\ UNCHANGED <<now, storeVars, resp, chainVars, size, data, fetchError,
                   streakVars, formVars>>

NextLoadMore == Tick \/ PostBeforeMount \/ Mount \/ Fetch \/ Done \/ LoadMore

SpecLoadMore == Init /\ [][NextLoadMore]_vars

\* C16: against a store that does not change, "load more" is in the end no
\* longer offered.  Each time it is offered the last page loaded holds an
\* entry, and a page is loaded per click, so on a store of n entries it is
\* gone at the latest when n + 1 pages are loaded: while it is offered, no
\* more pages are loaded than entries are stored.
C16_LoadMoreEnds == hasMore => Len(data[1]) <= Len(rows)

-----------------------------------------------------------------------------
(* Page requests that fail *)

\* the request of a revalidation for its next page fails: fetch rejects or
\* res.json() rejects on a body that is no JSON, and the revalidation ends
\* with the error, leaving data as it was
RunFetchRejects(k) ==
    /\ k \in 1..Len(runs)
    /\ Len(runs[k].got) < runs[k].n
    /\ ~Reused(k, Len(runs[k].got))
    /\ fetchError' = IF k = Len(runs) THEN TRUE ELSE fetchError
    /\ runs' = [j \in 1..(Len(runs) - 1) |-> IF j < k THEN runs[j] ELSE runs[j + 1]]
    /\ UNCHANGED <<now, storeVars, resp, chainVars, size, data, streakVars, formVars>>

\* the request is answered with a status that is not OK and a JSON body:
\* fetcher does not look at res.ok and hands res.json() on as the page
RunFetchNotOk(k) ==
    /\ k \in 1..Len(runs)
    /\ Len(runs[k].got) < runs[k].n
    /\ ~Reused(k, Len(runs[k].got))
    /\ runs' = [runs EXCEPT ![k].got = Append(@, ErrorBody)]
    /\ UNCHANGED <<now, storeVars, resp, chainVars, size, data, fetchError,
                   streakVars, formVars>>

FetchRejects == \E k \in 1..Len(runs) : RunFetchRejects(k)

FetchNotOk == \E k \in 1..Len(runs) : RunFetchNotOk(k)

NextFetchFail == PostClient \/ Fetch \/ Done \/ LoadMore \/ FetchRejects \/ FetchNotOk

SpecFetchFail == InitClient /\ [][NextFetchFail]_vars

\* C12: when a page fetch fails after a page was loaded, also with a response
\* that is not OK, the timeline still consists of the well-formed entries of
\* the pages loaded.
\* The case is a timeline whose first page is a page loaded earlier.
C12_TimelineWellFormed ==
    (/\ data # Missing
     /\ data[1] # <<>>
     /\ "entries" \in DOMAIN data[1][1])
        => \A i \in 1..Len(list) : "id" \in DOMAIN list[i]

\* The statement of C12 for the requests that reject: the step leaves data
\* as it was.
T12_RejectKeepsData == [][FetchRejects => data' = data]_vars

====
